---- MODULE Spec2Model ----
(***************************************************************************)
(* A model of av1_encoder/cli.py: the per-file pipeline process_file       *)
(* (probe, compliance check, temp-file planning, encode, no-replace move   *)
(* or in-place replace_file with backup and rollback), the batch loop      *)
(* walk_and_process, the memoized capability query get_av1_nvenc_options   *)
(* and the pure functions probe_media / already_compliant.                 *)
(*                                                                         *)
(* The filesystem is a function from the paths that exist to their         *)
(* content.  A path is a sequence of name components, <<dir, stem...,      *)
(* suffix>>.  Every filesystem call of the code is one action; a call may  *)
(* fail (raise) and then leaves the filesystem as it was.                  *)
(***************************************************************************)
EXTENDS Integers, Sequences, FiniteSets, TLC

VARIABLES
    fs,        \* the files that exist: path -> content
    tdExists,  \* whether the --temp-dir directory exists
    args,      \* per instance: the command line flags of the current run
    pc,        \* per instance: position in walk_and_process / process_file
    todo,      \* per instance: file names listed by os.walk, not yet visited
    results,   \* per instance: the results list of walk_and_process
    cur,       \* per instance: the locals of the current process_file call
    nvenc,     \* per instance: the module global _AV1_NVENC_OPTIONS
    obs,       \* per instance: external calls observed (help queries, their answers)
    runs,      \* per instance: number of runs started
    faults,    \* injected failures still allowed (negative: any number)
    helpText,  \* per encoder binary: what its help command does on this machine
    desc,      \* compliance harness: the MediaInfo under evaluation
    verdict,   \* compliance harness: the last answer of already_compliant
    ainfo,     \* command harness: info.audio_streams given to build_ffmpeg_cmd
    built      \* command harness: the command and the warnings it produced

vars == <<fs, tdExists, args, pc, todo, results, cur, nvenc, obs, runs, faults, helpText,
          desc, verdict, ainfo, built>>

----------------------------------------------------------------------------
(* Bounds of the model *)

MaxRuns == 2
MaxStreams == 2
MaxQueries == 4
MaxFaults == 1
MaxChannels == 9

Procs == {"p1", "p2"}
None == "none"

----------------------------------------------------------------------------
(* Paths *)

VIDEO_EXTS == {"mp4", "mkv", "mov", "avi", "m4v", "ts", "m2ts", "webm"}

\* str.lower() on the suffixes the model uses
Lower(s) == CASE s = "MKV" -> "mkv"
              [] s = "MP4" -> "mp4"
              [] OTHER -> s

Suffix(p) == p[Len(p)]

\* Path.with_suffix: the last component replaced by the components of sfx
WithSuffix(p, sfx) == SubSeq(p, 1, Len(p) - 1) \o sfx

\* the components of Path.stem
StemOf(p) == SubSeq(p, 2, Len(p) - 1)

BackupOf(src) == WithSuffix(src, <<Suffix(src), "bak">>)

choose_ext(p) == IF Lower(Suffix(p)) \in {"mkv", "webm"} THEN Lower(Suffix(p)) ELSE "mkv"

\* tmp_name in chosen_tmp_dir
TmpPath(dir, p, pid, uuid) == <<dir>> \o StemOf(p) \o <<"av1", pid, uuid, "tmp", choose_ext(p)>>

\* dest_path of process_file
DestPath(p) == IF choose_ext(p) = Lower(Suffix(p)) THEN p ELSE WithSuffix(p, <<choose_ext(p)>>)

\* final_out of the no-replace branch
FinalOut(p) == WithSuffix(p, <<choose_ext(p)>>)

----------------------------------------------------------------------------
(* The filesystem *)

Exists(f, p) == p \in DOMAIN f

Remove(f, p) == [q \in (DOMAIN f) \ {p} |-> f[q]]

Put(f, p, c) == [q \in (DOMAIN f) \cup {p} |-> IF q = p THEN c ELSE f[q]]

RenameCopy(f, a, b) == Put(f, b, f[a])

\* os.replace(a, b): b is overwritten, a is gone
Rename(f, a, b) == Put(Remove(f, a), b, f[a])

NoFile == [absent |-> TRUE]

ContentAt(f, p) == IF Exists(f, p) THEN f[p] ELSE NoFile

is_media_file(f, p) == Exists(f, p) /\ Lower(Suffix(p)) \in VIDEO_EXTS

----------------------------------------------------------------------------
(* Streams, probe_media and already_compliant *)

Stream(t, c) == [codec_type |-> t, codec_name |-> c]

RECURSIVE AudioCodecs(_)
AudioCodecs(streams) ==
    IF streams = <<>> THEN <<>>
    ELSE LET st == Head(streams)
             rest == AudioCodecs(Tail(streams))
         IN IF st.codec_type = "audio"
            THEN <<(IF st.codec_name = None THEN "" ELSE st.codec_name)>> \o rest
            ELSE rest

HasVideo(streams) == \E i \in 1..Len(streams) : streams[i].codec_type = "video"

AllVideoAv1(streams) ==
    \A i \in 1..Len(streams) :
        streams[i].codec_type = "video" => streams[i].codec_name = "av1"

NoInfo == [absent |-> TRUE]

MediaInfo(hv, av, ac) == [has_video |-> hv, all_video_av1 |-> av, audio_codecs |-> ac]

probe_media(streams) ==
    MediaInfo(HasVideo(streams),
              IF HasVideo(streams) THEN AllVideoAv1(streams) ELSE FALSE,
              AudioCodecs(streams))

already_compliant_any_audio(info) ==
    IF info = NoInfo THEN FALSE
    ELSE IF ~info.has_video THEN FALSE
    ELSE IF ~info.all_video_av1 THEN FALSE
    ELSE TRUE

already_compliant(info) ==
    IF info = NoInfo THEN FALSE
    ELSE IF ~info.has_video THEN FALSE
    ELSE IF ~info.all_video_av1 THEN FALSE
    ELSE IF \A i \in 1..Len(info.audio_codecs) :
                info.audio_codecs[i] # "" => info.audio_codecs[i] = "opus"
         THEN TRUE
         ELSE FALSE

----------------------------------------------------------------------------
(* get_av1_nvenc_options: the help text is a sequence of lines, a line a     *)
(* sequence of characters and word atoms ("-", " ", "spatial", ...)          *)

RECURSIVE LStrip(_, _)
LStrip(line, ch) ==
    IF line # <<>> /\ Head(line) = ch THEN LStrip(Tail(line), ch) ELSE line

RECURSIVE RStrip(_, _)
RStrip(line, ch) ==
    IF line # <<>> /\ line[Len(line)] = ch
    THEN RStrip(SubSeq(line, 1, Len(line) - 1), ch)
    ELSE line

\* str.strip()
Strip(line) == RStrip(LStrip(line, " "), " ")

RECURSIVE FirstWord(_)
\* s.split()[0] of a stripped, non-empty line
FirstWord(line) ==
    IF line = <<>> \/ Head(line) = " " THEN <<>>
    ELSE <<Head(line)>> \o FirstWord(Tail(line))

\* str.replace("-", "_")
Underscore(w) == [i \in 1..Len(w) |-> IF w[i] = "-" THEN "_" ELSE w[i]]

StartsWith(s, pre) == Len(s) >= Len(pre) /\ SubSeq(s, 1, Len(pre)) = pre

\* the option name a help line yields, <<>> when it yields none
OptionName(line) ==
    LET s == Strip(line)
    IN IF StartsWith(s, <<"-">>) /\ ~StartsWith(s, <<"-", "-">>)
       THEN Underscore(LStrip(FirstWord(s), "-"))
       ELSE <<>>

ParseHelp(out) ==
    {OptionName(out[i]) : i \in 1..Len(out)} \ {<<>>}

HelpSpatial == <<" ", " ", "-", "spatial", "-", "aq", " ", "<boolean>">>
HelpTemporal == <<"-", "temporal", "_", "aq", " ", "<boolean>", " ">>
HelpDouble == <<"-", "-", "help">>
HelpTitle == <<"Encoder", " ", "av1", "_", "nvenc">>
HelpDash == <<" ", "-">>

\* what running `ffmpeg -hide_banner -h encoder=av1_nvenc` can do: raise, or
\* print some text (the exit status is not read)
Raised == <<<<"raised">>>>

HelpOutcomes ==
    { Raised,
      <<>>,
      <<HelpTitle, HelpDouble, HelpDash>>,
      <<HelpTitle, HelpSpatial>>,
      <<HelpTemporal>>,
      <<HelpTitle, HelpSpatial, HelpTemporal, HelpDouble>> }

Bins == {"ffmpeg", "C:/ffmpeg/ffmpeg.exe"}

NotQueried == {<<"not", "queried">>}

IsCachedTruthy(cache) == cache # NotQueried /\ cache # {}

\* `if _AV1_NVENC_OPTIONS is not None`
IsCached(cache) == cache # NotQueried

OptsOf(outcome) == IF outcome = Raised THEN {} ELSE ParseHelp(outcome)

\* the value get_av1_nvenc_options returns and leaves in the global
NvencAfter(cache, outcome) == IF IsCached(cache) THEN cache ELSE OptsOf(outcome)

Obs0 == [helpCalls |-> 0, queries |-> 0, first |-> NotQueried, last |-> NotQueried,
         firstRaised |-> FALSE, bins |-> <<>>, calls |-> 0]

\* one call of get_av1_nvenc_options(bin) by instance p, the help command
\* answering `outcome` if it is run
GetAv1NvencOptions(p, bin, outcome) ==
    /\ nvenc' = [nvenc EXCEPT ![p] = NvencAfter(@, outcome)]
    /\ obs' = [obs EXCEPT ![p] =
                 [helpCalls |-> IF IsCached(nvenc[p]) THEN @.helpCalls ELSE @.helpCalls + 1,
                  queries |-> @.queries + 1,
                  first |-> IF @.queries = 0 THEN NvencAfter(nvenc[p], outcome) ELSE @.first,
                  last |-> NvencAfter(nvenc[p], outcome),
                  firstRaised |-> IF @.queries = 0
                                 THEN ~IsCached(nvenc[p]) /\ outcome = Raised
                                 ELSE @.firstRaised,
                  bins |-> IF Len(@.bins) < MaxQueries THEN Append(@.bins, bin) ELSE @.bins,
                  calls |-> @.calls]]

----------------------------------------------------------------------------
(* File contents and the encoder *)

\* origin: the source file the bytes come from; gen: how often they were re-encoded
Content(origin, gen, streams) == [origin |-> origin, gen |-> gen, streams |-> streams]

\* a partly written output file
Partial == Content(<<"partial">>, 0, <<>>)

\* what `-c:v av1_nvenc ... -c:a libopus ... -c:s copy -c:t copy` makes of the streams
Transcode(streams) ==
    [i \in 1..Len(streams) |->
        IF streams[i].codec_type = "video" THEN Stream("video", "av1")
        ELSE IF streams[i].codec_type = "audio" THEN Stream("audio", "opus")
        ELSE streams[i]]

Encoded(c) == Content(c.origin, c.gen + 1, Transcode(c.streams))

----------------------------------------------------------------------------
(* process_file: locals and control *)

InDir == "in"
TempDir == "td"

\* drive (or anchor) of a directory; the input tree is on C:
DriveOf(d) == IF d = "D:td" THEN "D:" ELSE "C:"

\* chosen_tmp_dir: temp_dir when given and on the drive of dest_dir
ChosenTmpDir(a) ==
    IF a.temp_dir # None /\ DriveOf(a.temp_dir) = DriveOf("C:in") THEN TempDir ELSE InDir

UuidSeq == <<"u1", "u2", "u3", "u4">>

\* uuid.uuid4().hex[:8]: a name no existing file carries
FreshUuid(f, dir, path, pid) ==
    LET free == {i \in 1..Len(UuidSeq) : ~Exists(f, TmpPath(dir, path, pid, UuidSeq[i]))}
    IN UuidSeq[CHOOSE i \in free : \A j \in free : i <= j]

Cur0 == [path |-> <<>>, info |-> NoInfo, src0 |-> NoFile, dest0 |-> NoFile,
         bak0 |-> NoFile, tmp |-> <<>>,
         enc |-> NoFile, phase |-> "none", failedAt |-> None, rbFailed |-> FALSE,
         failmsg |-> None, ok |-> FALSE, msg |-> None, ops |-> {}, aq |-> {},
         help |-> FALSE, ran |-> FALSE, rc |-> None, cleanupFailed |-> FALSE]

Goto(p, label, c) ==
    /\ pc' = [pc EXCEPT ![p] = label]
    /\ cur' = [cur EXCEPT ![p] = c]
    /\ UNCHANGED results

\* process_file returns (ok, msg); walk_and_process appends (p, ok, msg)
Finish(p, ok, msg, c) ==
    /\ pc' = [pc EXCEPT ![p] = "walk"]
    /\ cur' = [cur EXCEPT ![p] = [c EXCEPT !.ok = ok, !.msg = msg, !.phase = "returned"]]
    /\ results' = [results EXCEPT ![p] = Append(@, [path |-> c.path, ok |-> ok, msg |-> msg])]

\* an exception leaves process_file: walk_and_process and main do not catch it
Crash(p, c) ==
    /\ pc' = [pc EXCEPT ![p] = "crashed"]
    /\ cur' = [cur EXCEPT ![p] = [c EXCEPT !.phase = "raised"]]
    /\ UNCHANGED results

Did(c, op) == [c EXCEPT !.ops = @ \cup {op}]

Harness == UNCHANGED <<desc, verdict, helpText, ainfo, built>>

NoFault == UNCHANGED faults

\* A call fails.  It does so by itself when the file it works on is missing
\* (natural); any other failure (permissions, a full disk, a broken tool) is
\* injected and counts against the budget.
Fault(natural) ==
    /\ natural \/ faults # 0
    /\ faults' = IF natural \/ faults < 0 THEN faults ELSE faults - 1

Flags == [dry_run : BOOLEAN, no_replace : BOOLEAN, force : BOOLEAN,
          temp_dir : {None, "C:td", "D:td"}]

Listing(f) == {q \in DOMAIN f : q[1] = InDir}

----------------------------------------------------------------------------
(* walk_and_process *)

AllOk(rs) == \A i \in 1..Len(rs) : rs[i].ok

\* main: a run starts; os.walk lists the file names of the tree.  The command is
\* run again, with the same flags, after a run in which every file was OK.
WalkStart(p) ==
    /\ pc[p] = "idle" \/ (pc[p] = "done" /\ AllOk(results[p]))
    /\ runs[p] < MaxRuns
    /\ runs' = [runs EXCEPT ![p] = @ + 1]
    /\ todo' = [todo EXCEPT ![p] = Listing(fs)]
    /\ results' = [results EXCEPT ![p] = <<>>]
    /\ cur' = [cur EXCEPT ![p] = Cur0]
    /\ nvenc' = [nvenc EXCEPT ![p] = NotQueried]
    /\ obs' = [obs EXCEPT ![p] = Obs0]
    /\ pc' = [pc EXCEPT ![p] = "walk"]
    /\ UNCHANGED <<fs, tdExists, args>>
    /\ NoFault /\ Harness

\* the loop takes the next name; is_media_file decides whether it is processed
WalkNext(p) ==
    /\ pc[p] = "walk"
    /\ \E q \in todo[p] :
         /\ todo' = [todo EXCEPT ![p] = @ \ {q}]
         /\ IF is_media_file(fs, q)
            THEN /\ Goto(p, "probe", [Cur0 EXCEPT !.path = q, !.phase = "probe"])
                 /\ obs' = [obs EXCEPT ![p].calls = @ + 1]
            ELSE UNCHANGED <<pc, cur, results, obs>>
    /\ UNCHANGED <<fs, tdExists, args, nvenc, runs>>
    /\ NoFault /\ Harness

\* the loop ends: walk_and_process returns results
WalkDone(p) ==
    /\ pc[p] = "walk"
    /\ todo[p] = {}
    /\ pc' = [pc EXCEPT ![p] = "done"]
    /\ UNCHANGED <<fs, tdExists, args, todo, results, cur, nvenc, obs, runs, faults, helpText>>
    /\ NoFault /\ Harness

----------------------------------------------------------------------------
(* process_file up to the encoder run *)

FsSame == UNCHANGED <<fs, tdExists>>
RunSame == UNCHANGED <<args, todo, runs>>
CapSame == UNCHANGED <<nvenc, obs>>

SkipsNever(info, force) == FALSE

\* `if already_compliant(info) and not force`
Skips(info, force) == already_compliant(info) /\ ~force

\* probe_media, the compliance check and the choice of the temp file name
Probe(p) ==
    /\ pc[p] = "probe"
    /\ LET c == cur[p] IN
         \/ /\ Finish(p, FALSE, "probe_failed", c)
            /\ Fault(~Exists(fs, c.path))
         \/ /\ Exists(fs, c.path)
            /\ NoFault
            /\ LET info == probe_media(fs[c.path].streams)
                   dir == ChosenTmpDir(args[p])
                   c1 == [c EXCEPT !.info = info, !.src0 = fs[c.path],
                                   !.dest0 = ContentAt(fs, DestPath(c.path)),
                                   !.bak0 = ContentAt(fs, BackupOf(c.path))]
               IN IF Skips(info, args[p].force)
                  THEN Finish(p, TRUE, "skip", c1)
                  ELSE Goto(p, "mkdir",
                            [c1 EXCEPT !.tmp = TmpPath(dir, c.path, p,
                                                      FreshUuid(fs, dir, c.path, p)),
                                       !.phase = "plan"])
    /\ FsSame /\ RunSame /\ CapSame /\ Harness

\* chosen_tmp_dir.mkdir(parents=True, exist_ok=True), outside any try
Mkdir(p) ==
    /\ pc[p] = "mkdir"
    /\ LET c == cur[p] IN
         \/ /\ ChosenTmpDir(args[p]) = InDir \/ tdExists
            /\ Goto(p, "build", c)
            /\ UNCHANGED tdExists /\ NoFault
         \/ /\ ChosenTmpDir(args[p]) = TempDir /\ ~tdExists
            /\ tdExists' = TRUE
            /\ Goto(p, "build", Did(c, "mkdir"))
            /\ NoFault
         \/ /\ ChosenTmpDir(args[p]) = TempDir /\ ~tdExists
            /\ Crash(p, c)
            /\ UNCHANGED tdExists /\ Fault(FALSE)
    /\ UNCHANGED fs /\ RunSame /\ CapSame /\ Harness

\* `if dry_run: return True, "DRY-RUN ..."`
AfterBuild(a) == IF a.dry_run THEN "dry" ELSE "encode"

\* build_ffmpeg_cmd, which asks get_av1_nvenc_options(ffmpeg_bin), then the dry-run return
Build(p) ==
    /\ pc[p] = "build"
    /\ LET outcome == helpText["ffmpeg"] IN
         /\ GetAv1NvencOptions(p, "ffmpeg", outcome)
         /\ LET opts == NvencAfter(nvenc[p], outcome)
                c == [cur[p] EXCEPT
                        !.aq = {<<"spatial", "_", "aq">>, <<"temporal", "_", "aq">>} \cap opts,
                        !.help = ~IsCached(nvenc[p])]
            IN IF AfterBuild(args[p]) = "dry"
               THEN Finish(p, TRUE, "dry_run", c)
               ELSE Goto(p, "encode", [c EXCEPT !.phase = "encode"])
    /\ FsSame /\ RunSame /\ NoFault /\ Harness

\* `if no_replace:` after a successful encoder run
AfterEncode(a) == IF a.no_replace THEN "nr_check" ELSE "rep_stale_check"

OnReturnCodeIgnored(rc, a) == AfterEncode(a)

\* `if proc.returncode != 0:` cleanup and return False, else go on
OnReturnCode(rc, a) == IF rc # 0 THEN "enc_cleanup_check" ELSE AfterEncode(a)

PhaseAt(label) == CASE label = "nr_check" -> "noreplace"
                    [] label = "rep_stale_check" -> "replace"
                    [] OTHER -> "encode_failed"

\* subprocess.run(cmd): the encoder cannot be started, fails, or writes tmp_out.
\* In the two except branches the encoder never ran, so `if tmp_out.exists()` is
\* false for the freshly named temp file and the handler returns at once.
Encode(p) ==
    /\ pc[p] = "encode"
    /\ LET c == [cur[p] EXCEPT !.ran = TRUE] IN
         \/ /\ Finish(p, FALSE, "ffmpeg_not_found", [c EXCEPT !.rc = "notfound"])
            /\ UNCHANGED fs /\ Fault(FALSE)
         \/ /\ Finish(p, FALSE, "error", [c EXCEPT !.rc = "error"])
            /\ UNCHANGED fs /\ Fault(FALSE)
         \/ /\ \E made \in BOOLEAN :
                 fs' = IF made THEN Put(fs, c.tmp, Partial) ELSE fs
            /\ Fault(~Exists(fs, c.path))
            /\ Goto(p, OnReturnCode(1, args[p]),
                    [c EXCEPT !.rc = "nonzero", !.phase = PhaseAt(OnReturnCode(1, args[p]))])
         \/ /\ Exists(fs, c.path)
            /\ NoFault
            /\ fs' = Put(fs, c.tmp, Encoded(fs[c.path]))
            /\ Goto(p, OnReturnCode(0, args[p]),
                    [c EXCEPT !.rc = "ok", !.enc = Encoded(fs[c.path]),
                              !.phase = PhaseAt(OnReturnCode(0, args[p])),
                              !.ops = @ \cup {"tmp_write"}])
    /\ UNCHANGED tdExists /\ RunSame /\ CapSame /\ Harness

\* returncode != 0: `if tmp_out.exists()`
EncCleanupCheck(p) ==
    /\ pc[p] = "enc_cleanup_check"
    /\ IF Exists(fs, cur[p].tmp)
       THEN Goto(p, "enc_cleanup_unlink", cur[p])
       ELSE Finish(p, FALSE, "ffmpeg_failed", cur[p])
    /\ FsSame /\ RunSame /\ CapSame /\ NoFault /\ Harness

\* `tmp_out.unlink()` under `finally: return False, ...`
EncCleanupUnlink(p) ==
    /\ pc[p] = "enc_cleanup_unlink"
    /\ \/ /\ Exists(fs, cur[p].tmp)
          /\ fs' = Remove(fs, cur[p].tmp) /\ NoFault
          /\ Finish(p, FALSE, "ffmpeg_failed", Did(cur[p], "tmp_unlink"))
       \/ /\ UNCHANGED fs /\ Fault(~Exists(fs, cur[p].tmp))
          /\ Finish(p, FALSE, "ffmpeg_failed", [cur[p] EXCEPT !.cleanupFailed = TRUE])
    /\ UNCHANGED tdExists /\ RunSame /\ CapSame /\ Harness

----------------------------------------------------------------------------
(* process_file, no-replace branch *)

Failed(c, at, msg) == [c EXCEPT !.failedAt = at, !.failmsg = msg]

\* final_out = path.with_suffix(chosen_ext)
final_out(p) == FinalOut(p)

\* `if final_out.exists()`
NrCheck(p) ==
    /\ pc[p] = "nr_check"
    /\ IF Exists(fs, final_out(cur[p].path))
       THEN Goto(p, "nr_unlink", cur[p])
       ELSE Goto(p, "nr_move", cur[p])
    /\ FsSame /\ RunSame /\ CapSame /\ NoFault /\ Harness

\* `final_out.unlink()`
NrUnlink(p) ==
    /\ pc[p] = "nr_unlink"
    /\ LET c == cur[p]
           final == final_out(c.path)
       IN \/ /\ Exists(fs, final)
             /\ fs' = Remove(fs, final) /\ NoFault
             /\ Goto(p, "nr_move", Did(c, "final_unlink"))
          \/ /\ UNCHANGED fs /\ Fault(~Exists(fs, final))
             /\ Goto(p, "fail_cleanup_check", Failed(c, "final_unlink", "move_failed"))
    /\ UNCHANGED tdExists /\ RunSame /\ CapSame /\ Harness

\* shutil.move(tmp_out, final_out): os.rename, and when that raises OSError a copy
\* followed by an unlink of the source, either of which can raise in turn
NrMove(p) ==
    /\ pc[p] = "nr_move"
    /\ LET c == cur[p]
           final == final_out(c.path)
       IN \/ /\ Exists(fs, c.tmp)
             /\ fs' = Rename(fs, c.tmp, final) /\ NoFault
             /\ Finish(p, TRUE, "wrote", Did(c, "tmp_to_final"))
          \/ /\ UNCHANGED fs /\ Fault(~Exists(fs, c.tmp))
             /\ Goto(p, "fail_cleanup_check", Failed(c, "move", "move_failed"))
          \/ /\ Exists(fs, c.tmp)
             /\ fs' = Put(fs, final, Partial) /\ Fault(FALSE)
             /\ Goto(p, "fail_cleanup_check",
                     Failed(Did(c, "final_partial"), "move", "move_failed"))
          \/ /\ Exists(fs, c.tmp)
             /\ fs' = Put(fs, final, fs[c.tmp]) /\ Fault(FALSE)
             /\ Goto(p, "fail_cleanup_check",
                     Failed(Did(c, "tmp_copied"), "move", "move_failed"))
    /\ UNCHANGED tdExists /\ RunSame /\ CapSame /\ Harness

\* the except branches of process_file: `if tmp_out.exists()`
FailCleanupCheck(p) ==
    /\ pc[p] = "fail_cleanup_check"
    /\ IF Exists(fs, cur[p].tmp)
       THEN Goto(p, "fail_cleanup_unlink", cur[p])
       ELSE Finish(p, FALSE, cur[p].failmsg, cur[p])
    /\ FsSame /\ RunSame /\ CapSame /\ NoFault /\ Harness

\* `try: tmp_out.unlink() except Exception: pass`, then return False
FailCleanupUnlink(p) ==
    /\ pc[p] = "fail_cleanup_unlink"
    /\ \/ /\ Exists(fs, cur[p].tmp)
          /\ fs' = Remove(fs, cur[p].tmp) /\ NoFault
          /\ Finish(p, FALSE, cur[p].failmsg, Did(cur[p], "tmp_unlink"))
       \/ /\ UNCHANGED fs /\ Fault(~Exists(fs, cur[p].tmp))
          /\ Finish(p, FALSE, cur[p].failmsg, [cur[p] EXCEPT !.cleanupFailed = TRUE])
    /\ UNCHANGED tdExists /\ RunSame /\ CapSame /\ Harness

----------------------------------------------------------------------------
(* replace_file(src, tmp_out, dest) *)

Src(c) == c.path
Bak(c) == BackupOf(c.path)
Dest(c) == DestPath(c.path)

\* `if backup.exists()`
RepStaleCheck(p) ==
    /\ pc[p] = "rep_stale_check"
    /\ IF Exists(fs, Bak(cur[p]))
       THEN Goto(p, "rep_stale_unlink", cur[p])
       ELSE Goto(p, "rep_backup_check", cur[p])
    /\ FsSame /\ RunSame /\ CapSame /\ NoFault /\ Harness

\* `backup.unlink()`, before the try: a failure is not rolled back
RepStaleUnlink(p) ==
    /\ pc[p] = "rep_stale_unlink"
    /\ LET c == cur[p] IN
         \/ /\ Exists(fs, Bak(c))
            /\ fs' = Remove(fs, Bak(c)) /\ NoFault
            /\ Goto(p, "rep_backup_check", Did(c, "bak_unlink"))
         \/ /\ UNCHANGED fs /\ Fault(~Exists(fs, Bak(c)))
            /\ Goto(p, "fail_cleanup_check", Failed(c, "stale_unlink", "replace_failed"))
    /\ UNCHANGED tdExists /\ RunSame /\ CapSame /\ Harness

\* `if src.exists()`
RepBackupCheck(p) ==
    /\ pc[p] = "rep_backup_check"
    /\ IF Exists(fs, Src(cur[p]))
       THEN Goto(p, "rep_backup_rename", cur[p])
       ELSE Goto(p, "rep_dest_check", cur[p])
    /\ FsSame /\ RunSame /\ CapSame /\ NoFault /\ Harness

BackupByCopy(f, a, b) == RenameCopy(f, a, b)

\* src.replace(backup)
BackupRename(f, a, b) == Rename(f, a, b)

\* `src.replace(backup)`, before the try
RepBackupRename(p) ==
    /\ pc[p] = "rep_backup_rename"
    /\ LET c == cur[p] IN
         \/ /\ Exists(fs, Src(c))
            /\ fs' = BackupRename(fs, Src(c), Bak(c)) /\ NoFault
            /\ Goto(p, "rep_dest_check", Did(c, "src_to_bak"))
         \/ /\ UNCHANGED fs /\ Fault(~Exists(fs, Src(c)))
            /\ Goto(p, "fail_cleanup_check", Failed(c, "backup_rename", "replace_failed"))
    /\ UNCHANGED tdExists /\ RunSame /\ CapSame /\ Harness

\* `if dest.exists()`
RepDestCheck(p) ==
    /\ pc[p] = "rep_dest_check"
    /\ IF Exists(fs, Dest(cur[p]))
       THEN Goto(p, "rep_dest_unlink", cur[p])
       ELSE Goto(p, "rep_promote", cur[p])
    /\ FsSame /\ RunSame /\ CapSame /\ NoFault /\ Harness

\* `dest.unlink()`
RepDestUnlink(p) ==
    /\ pc[p] = "rep_dest_unlink"
    /\ LET c == cur[p] IN
         \/ /\ Exists(fs, Dest(c))
            /\ fs' = Remove(fs, Dest(c)) /\ NoFault
            /\ Goto(p, "rep_promote", Did(c, "dest_unlink"))
         \/ /\ UNCHANGED fs /\ Fault(~Exists(fs, Dest(c)))
            /\ Goto(p, "rep_rollback_check", Failed(c, "dest_unlink", "replace_failed"))
    /\ UNCHANGED tdExists /\ RunSame /\ CapSame /\ Harness

\* `tmp_out.replace(dest)`
RepPromote(p) ==
    /\ pc[p] = "rep_promote"
    /\ LET c == cur[p] IN
         \/ /\ Exists(fs, c.tmp)
            /\ fs' = Rename(fs, c.tmp, Dest(c)) /\ NoFault
            /\ Goto(p, "rep_commit_check", Did(c, "tmp_to_dest"))
         \/ /\ UNCHANGED fs /\ Fault(~Exists(fs, c.tmp))
            /\ Goto(p, "rep_rollback_check", Failed(c, "promote", "replace_failed"))
    /\ UNCHANGED tdExists /\ RunSame /\ CapSame /\ Harness

\* `if backup.exists()` after the promotion
RepCommitCheck(p) ==
    /\ pc[p] = "rep_commit_check"
    /\ IF Exists(fs, Bak(cur[p]))
       THEN Goto(p, "rep_commit_unlink", cur[p])
       ELSE Finish(p, TRUE, "replaced", cur[p])
    /\ FsSame /\ RunSame /\ CapSame /\ NoFault /\ Harness

CommitKeep(f, b) == f

\* backup.unlink()
CommitRemove(f, b) == Remove(f, b)

\* `backup.unlink()` on success
RepCommitUnlink(p) ==
    /\ pc[p] = "rep_commit_unlink"
    /\ LET c == cur[p] IN
         \/ /\ Exists(fs, Bak(c))
            /\ fs' = CommitRemove(fs, Bak(c)) /\ NoFault
            /\ Finish(p, TRUE, "replaced", Did(c, "bak_unlink"))
         \/ /\ UNCHANGED fs /\ Fault(~Exists(fs, Bak(c)))
            /\ Goto(p, "rep_rollback_check", Failed(c, "commit_unlink", "replace_failed"))
    /\ UNCHANGED tdExists /\ RunSame /\ CapSame /\ Harness

NeedsRollbackNever(f, c) == FALSE

\* `if (not src.exists()) and backup.exists()`
NeedsRollback(f, c) == ~Exists(f, Src(c)) /\ Exists(f, Bak(c))

\* the except branch of replace_file
RepRollbackCheck(p) ==
    /\ pc[p] = "rep_rollback_check"
    /\ IF NeedsRollback(fs, cur[p])
       THEN Goto(p, "rep_rollback_rename", cur[p])
       ELSE Goto(p, "fail_cleanup_check", cur[p])
    /\ FsSame /\ RunSame /\ CapSame /\ NoFault /\ Harness

\* `backup.replace(src)`, then `raise` whether or not it worked
RepRollbackRename(p) ==
    /\ pc[p] = "rep_rollback_rename"
    /\ LET c == cur[p] IN
         \/ /\ Exists(fs, Bak(c))
            /\ fs' = Rename(fs, Bak(c), Src(c)) /\ NoFault
            /\ Goto(p, "fail_cleanup_check", Did(c, "bak_to_src"))
         \/ /\ UNCHANGED fs /\ Fault(~Exists(fs, Bak(c)))
            /\ Goto(p, "fail_cleanup_check", [c EXCEPT !.rbFailed = TRUE])
    /\ UNCHANGED tdExists /\ RunSame /\ CapSame /\ Harness

----------------------------------------------------------------------------
(* The harnesses of the memoized query and of the pure functions *)

\* a caller of the library function get_av1_nvenc_options with any ffmpeg_bin
CapQuery(p) ==
    /\ pc[p] = "lib"
    /\ obs[p].queries < MaxQueries
    /\ \E bin \in Bins : GetAv1NvencOptions(p, bin, helpText[bin])
    /\ UNCHANGED <<fs, tdExists, args, pc, todo, results, cur, runs>>
    /\ NoFault /\ Harness

CodecTypes == {"video", "audio", "subtitle"}
CodecNames == {None, "av1", "h264", "opus", "aac"}
AudioNames == {"", "opus", "aac"}

StreamLists == UNION {[1..n -> {Stream(t, c) : t \in CodecTypes, c \in CodecNames}] :
                      n \in 0..MaxStreams}

AudioLists == UNION {[1..n -> AudioNames] : n \in 0..MaxStreams}

Verdict0 == [has |-> FALSE, value |-> FALSE, changed |-> FALSE, prev |-> FALSE]

\* probe_media on the streams ffprobe reports
HProbe ==
    /\ pc["p1"] = "pure"
    /\ \E streams \in StreamLists : desc' = probe_media(streams)
    /\ verdict' = Verdict0
    /\ UNCHANGED <<fs, tdExists, args, pc, todo, results, cur, nvenc, obs, runs, faults, helpText>>
    /\ UNCHANGED <<ainfo, built>>

\* already_compliant on the description at hand
HEvaluate ==
    /\ pc["p1"] = "pure"
    /\ ~verdict.has
    /\ verdict' = [verdict EXCEPT !.has = TRUE, !.value = already_compliant(desc)]
    /\ UNCHANGED <<fs, tdExists, args, pc, todo, results, cur, nvenc, obs, runs, faults, helpText, desc>>
    /\ UNCHANGED <<ainfo, built>>

\* one audio stream of an evaluated description gets another, non-empty, codec
HChangeAudio ==
    /\ pc["p1"] = "pure"
    /\ verdict.has
    /\ \E i \in 1..Len(desc.audio_codecs) : \E c \in AudioNames \ {"", "opus"} :
         desc' = [desc EXCEPT !.audio_codecs[i] = c]
    /\ verdict' = [has |-> FALSE, value |-> FALSE, changed |-> TRUE, prev |-> verdict.value]
    /\ UNCHANGED <<fs, tdExists, args, pc, todo, results, cur, nvenc, obs, runs, faults, helpText>>
    /\ UNCHANGED <<ainfo, built>>

----------------------------------------------------------------------------
(* build_ffmpeg_cmd: the per-audio-stream arguments, and their harness *)

\* one entry of info.audio_streams as probe_media stores it: a JSON field that is
\* missing (None) is the empty tuple, a field that is present a 1-tuple
AudioStream(ch, layout) == [channels |-> ch, channel_layout |-> layout]

Digits == <<"0", "1", "2", "3", "4", "5", "6", "7", "8", "9">>

\* the decimal digits an f-string writes for a_idx
RECURSIVE Str(_)
Str(n) == IF n < 10 THEN Digits[n + 1] ELSE Str(n \div 10) \o Digits[(n % 10) + 1]

\* ch = int(a.get("channels") or 0)
ChannelsOf(a) == IF a.channels = <<>> THEN 0 ELSE a.channels[1]

\* str.lower() on the layout labels
LayoutLower(l) == CASE l = "5.1(SIDE)" -> "5.1(side)"
                    [] OTHER -> l

\* layout = (a.get("channel_layout") or "").lower()
LayoutOf(a) == IF a.channel_layout = <<>> THEN "" ELSE LayoutLower(a.channel_layout[1])

StreamOptFirst(name, a_idx) == name \o ":a:0"

\* f"-mapping_family:a:{a_idx}", f"-filter:a:{a_idx}", f"-ac:a:{a_idx}"
StreamOpt(name, a_idx) == name \o ":a:" \o Str(a_idx)

ChannelMap == "channelmap=map=FL-FL|FR-FR|FC-FC|LFE-LFE|SL-BL|SR-BR"

Warn(a_idx, kind) == <<[idx |-> a_idx, kind |-> kind]>>

\* the body of `for a_idx, a in enumerate(info.audio_streams or [])`: what one
\* stream appends to cmd and what it prints
AudioStreamArgs(a_idx, a) ==
    LET ch == ChannelsOf(a)
        layout == LayoutOf(a)
        family(v) == <<StreamOpt("-mapping_family", a_idx), v>>
    IN IF ch <= 2 THEN [cmd |-> family("0"), warns |-> <<>>]
       ELSE IF ch = 6 /\ layout = "5.1(side)"
            THEN [cmd |-> family("1") \o <<StreamOpt("-filter", a_idx), ChannelMap>>,
                  warns |-> <<>>]
       ELSE IF ch = 6 /\ layout \in {"5.1", "5.1(back)"}
            THEN [cmd |-> family("1"), warns |-> <<>>]
       ELSE IF ch = 8 /\ layout \in {"7.1", "7.1(wide)", "7.1(wide-side)", "7.1(rear)"}
            THEN [cmd |-> family("1"), warns |-> <<>>]
       ELSE IF ch = 4 /\ layout \in {"quad", "4.0"}
            THEN [cmd |-> family("1"), warns |-> <<>>]
       ELSE IF ch \in {3, 4, 5, 7}
            THEN [cmd |-> family("1"), warns |-> Warn(a_idx, "not_standard")]
       ELSE [cmd |-> <<StreamOpt("-ac", a_idx), "2">> \o family("0"),
             warns |-> Warn(a_idx, "downmix")]

\* the loop, from Python index a_idx on
RECURSIVE AudioLoop(_, _, _)
AudioLoop(streams, a_idx, acc) ==
    IF a_idx >= Len(streams) THEN acc
    ELSE LET r == AudioStreamArgs(a_idx, streams[a_idx + 1])
         IN AudioLoop(streams, a_idx + 1,
                      [cmd |-> acc.cmd \o r.cmd, warns |-> acc.warns \o r.warns])

\* cmd as it stands when the loop starts (input, maps, video and audio codec
\* arguments, `-c:s copy -c:t copy`), shortened to the arguments that name audio
CmdHead == <<"ffmpeg", "-i", "src", "-map", "0:a?", "-c:v", "av1_nvenc",
             "-c:a", "libopus", "-b:a", "128k", "-vbr", "on",
             "-application", "audio", "-c:s", "copy", "-c:t", "copy">>

\* build_ffmpeg_cmd, as far as the audio streams decide it: cmd and the warnings
build_ffmpeg_cmd(audio_streams) ==
    LET r == AudioLoop(audio_streams, 0, [cmd |-> CmdHead, warns |-> <<>>])
    IN [cmd |-> Append(r.cmd, "dst"), warns |-> r.warns]

ChannelValues == {<<>>} \cup {<<n>> : n \in 0..MaxChannels}

\* no label, and labels of each table row; "stereo" on more than two channels is
\* a label no row knows
LayoutValues == {<<>>} \cup {<<l>> : l \in {"stereo", "5.1(side)", "5.1(SIDE)", "5.1",
                                            "5.1(back)", "7.1", "quad", "4.0"}}

Built0 == [has |-> FALSE, cmd |-> <<>>, warns |-> <<>>]

\* probe_media meets one more audio stream and appends it to audio_streams
AProbeStream ==
    /\ pc["p1"] = "cmd"
    /\ Len(ainfo) < MaxStreams
    /\ \E ch \in ChannelValues, layout \in LayoutValues :
         ainfo' = Append(ainfo, AudioStream(ch, layout))
    /\ built' = Built0
    /\ UNCHANGED <<fs, tdExists, args, pc, todo, results, cur, nvenc, obs, runs, faults, helpText>>
    /\ UNCHANGED <<desc, verdict>>

\* build_ffmpeg_cmd is called with the description
ABuild ==
    /\ pc["p1"] = "cmd"
    /\ ~built.has
    /\ LET r == build_ffmpeg_cmd(ainfo)
       IN built' = [has |-> TRUE, cmd |-> r.cmd, warns |-> r.warns]
    /\ UNCHANGED <<fs, tdExists, args, pc, todo, results, cur, nvenc, obs, runs, faults, helpText>>
    /\ UNCHANGED <<desc, verdict, ainfo>>

----------------------------------------------------------------------------
(* Initial states and specifications *)

SrcPaths == {<<InDir, "a", e>> : e \in {"mp4", "mkv", "MKV", "webm"}}

\* the directories the batch is run on: one source file, or a.mp4 beside a.mkv
Dirs == {{q} : q \in SrcPaths} \cup {{<<InDir, "a", "mp4">>, <<InDir, "a", "mkv">>}}

StreamChoices == { <<Stream("video", "h264"), Stream("audio", "aac")>>,
                   <<Stream("video", "av1"), Stream("audio", "opus")>> }

Stale == Content(<<"stale">>, 0, <<>>)

\* a directory of source files; beside a single file there may be a backup left by
\* an earlier run
InitFs ==
    UNION { UNION { { [q \in S \cup B |->
                         IF q \in S THEN Content(q, 0, st[q]) ELSE Stale] :
                      st \in [S -> StreamChoices] } :
                    B \in (IF Cardinality(S) = 1 THEN SUBSET {BackupOf(q) : q \in S}
                                                   ELSE {{}}) } :
            S \in Dirs }

Flags0 == [dry_run |-> FALSE, no_replace |-> FALSE, force |-> FALSE, temp_dir |-> None]

InitCommon ==
    /\ todo = [p \in Procs |-> {}]
    /\ results = [p \in Procs |-> <<>>]
    /\ cur = [p \in Procs |-> Cur0]
    /\ nvenc = [p \in Procs |-> NotQueried]
    /\ obs = [p \in Procs |-> Obs0]
    /\ desc = MediaInfo(FALSE, FALSE, <<>>)
    /\ verdict = Verdict0
    /\ ainfo = <<>>
    /\ built = Built0

\* one instance, p1, runs the batch up to MaxRuns times
Init ==
    /\ fs \in InitFs
    /\ tdExists = FALSE
    /\ \E a \in Flags : args = [p \in Procs |-> IF p = "p1" THEN a ELSE Flags0]
    /\ pc = [p \in Procs |-> "idle"]
    /\ runs = [p \in Procs |-> IF p = "p1" THEN 0 ELSE MaxRuns]
    /\ faults = -1
    /\ \E o \in HelpOutcomes : helpText = [b \in Bins |-> o]
    /\ InitCommon

Step(p) ==
    \/ WalkStart(p)
    \/ WalkNext(p)
    \/ WalkDone(p)
    \/ Probe(p)
    \/ Mkdir(p)
    \/ Build(p)
    \/ Encode(p)
    \/ EncCleanupCheck(p)
    \/ EncCleanupUnlink(p)
    \/ NrCheck(p)
    \/ NrUnlink(p)
    \/ NrMove(p)
    \/ FailCleanupCheck(p)
    \/ FailCleanupUnlink(p)
    \/ RepStaleCheck(p)
    \/ RepStaleUnlink(p)
    \/ RepBackupCheck(p)
    \/ RepBackupRename(p)
    \/ RepDestCheck(p)
    \/ RepDestUnlink(p)
    \/ RepPromote(p)
    \/ RepCommitCheck(p)
    \/ RepCommitUnlink(p)
    \/ RepRollbackCheck(p)
    \/ RepRollbackRename(p)

Next == \E p \in Procs : Step(p)

Spec == Init /\ [][Next]_vars

\* Two instances, each running once, over the same source file (a.mp4 or a.mkv,
\* not yet compliant).  p2 replaces in place; p1 replaces in place too, or writes
\* beside the source through a temp directory.
ConcFlags == {Flags0, [Flags0 EXCEPT !.no_replace = TRUE, !.temp_dir = "C:td"]}

ConcFs ==
    {f \in InitFs :
        /\ \E q \in DOMAIN f : q \in SrcPaths /\ Suffix(q) \in {"mp4", "mkv"}
                                /\ ~already_compliant(probe_media(f[q].streams))
        /\ Cardinality({q \in DOMAIN f : q \in SrcPaths}) = 1}

InitConc ==
    /\ fs \in ConcFs
    /\ tdExists = FALSE
    /\ \E a \in ConcFlags : args = [p \in Procs |-> IF p = "p1" THEN a ELSE Flags0]
    /\ pc = [p \in Procs |-> "idle"]
    /\ runs = [p \in Procs |-> MaxRuns - 1]
    /\ faults = MaxFaults
    /\ helpText = [b \in Bins |-> <<HelpTitle, HelpSpatial, HelpTemporal, HelpDouble>>]
    /\ InitCommon

SpecConc == InitConc /\ [][Next]_vars

\* the library function alone
InitCap ==
    /\ fs = <<>>
    /\ tdExists = FALSE
    /\ args = [p \in Procs |-> Flags0]
    /\ pc = [p \in Procs |-> "lib"]
    /\ runs = [p \in Procs |-> 0]
    /\ faults = 0
    /\ helpText \in [Bins -> HelpOutcomes]
    /\ InitCommon

NextCap == \E p \in Procs : CapQuery(p)

SpecCap == InitCap /\ [][NextCap]_vars

\* the pure functions alone, from any description
InitPure ==
    /\ fs = <<>>
    /\ tdExists = FALSE
    /\ pc = [p \in Procs |-> "pure"]
    /\ runs = [p \in Procs |-> 0]
    /\ args = [p \in Procs |-> Flags0]
    /\ todo = [p \in Procs |-> {}]
    /\ results = [p \in Procs |-> <<>>]
    /\ cur = [p \in Procs |-> Cur0]
    /\ nvenc = [p \in Procs |-> NotQueried]
    /\ obs = [p \in Procs |-> Obs0]
    /\ faults = 0
    /\ helpText = [b \in Bins |-> <<>>]
    /\ desc \in {MediaInfo(hv, av, ac) : hv \in BOOLEAN, av \in BOOLEAN, ac \in AudioLists}
    /\ verdict = Verdict0
    /\ ainfo = <<>>
    /\ built = Built0

NextPure == HProbe \/ HEvaluate \/ HChangeAudio

SpecPure == InitPure /\ [][NextPure]_vars

\* build_ffmpeg_cmd alone, on any audio streams probe_media can hand it
InitAudio ==
    /\ fs = <<>>
    /\ tdExists = FALSE
    /\ args = [p \in Procs |-> Flags0]
    /\ pc = [p \in Procs |-> "cmd"]
    /\ runs = [p \in Procs |-> 0]
    /\ faults = 0
    /\ helpText = [b \in Bins |-> <<>>]
    /\ InitCommon

NextAudio == AProbeStream \/ ABuild

SpecAudio == InitAudio /\ [][NextAudio]_vars

----------------------------------------------------------------------------
(* Properties *)

ExactlyOne(a, b, c) == (a /\ ~b /\ ~c) \/ (~a /\ b /\ ~c) \/ (~a /\ ~b /\ c)

Probed(p) == cur[p].src0 # NoFile
Returned(p) == cur[p].phase = "returned"

OrigAtSrc(p) == ContentAt(fs, Src(cur[p])) = cur[p].src0
OrigAtBak(p) == ContentAt(fs, Bak(cur[p])) = cur[p].src0
BakPresent(p) == Exists(fs, Bak(cur[p]))
DestPresent(p) == Exists(fs, Dest(cur[p]))
EncAtDest(p) == cur[p].enc # NoFile /\ ContentAt(fs, Dest(cur[p])) = cur[p].enc

\* replace_file has been entered by the current process_file call
InReplace(p) ==
    \/ cur[p].phase = "replace"
    \/ Returned(p) /\ cur[p].msg \in {"replaced", "replace_failed"}

\* the stale-backup removal is behind us (it succeeded or was not needed)
PastStale(p) ==
    /\ pc[p] \notin {"rep_stale_check", "rep_stale_unlink"}
    /\ cur[p].failedAt # "stale_unlink"

\* C1 as stated: during in-place replacement, after every filesystem step, exactly
\* one of (i) original at its path, (ii) backup present and destination absent,
\* (iii) destination present and backup and original absent; backup and original
\* never both present, the three never all absent.
C1_ExactlyOneAsStated ==
    \A p \in Procs :
        InReplace(p) /\ PastStale(p) =>
            /\ ExactlyOne(OrigAtSrc(p),
                          BakPresent(p) /\ ~DestPresent(p),
                          DestPresent(p) /\ ~BakPresent(p) /\ ~OrigAtSrc(p))
            /\ ~(BakPresent(p) /\ OrigAtSrc(p))
            /\ (OrigAtSrc(p) \/ BakPresent(p) \/ DestPresent(p))

\* C1 amended: during in-place replacement, at every step, exactly one of (i) the
\* original content is at the original path, (ii) the original content is at the
\* backup path (the destination being absent, still holding an older file, or
\* already holding the encoded output), (iii) the destination holds the encoded
\* output and the original content is at neither path.
C1_OriginalBackupOrPromoted ==
    \A p \in Procs :
        InReplace(p) =>
            ExactlyOne(OrigAtSrc(p),
                       OrigAtBak(p),
                       EncAtDest(p) /\ ~OrigAtSrc(p) /\ ~OrigAtBak(p))

\* the promoted state: the encoded output is at the destination while the backup
\* still holds the original
C1_PromotedBeforeCommit ==
    \E p \in Procs :
        /\ cur[p].phase = "replace"
        /\ pc[p] = "rep_commit_unlink"
        /\ OrigAtBak(p) /\ EncAtDest(p)

FailedMidReplace(p) ==
    /\ Returned(p)
    /\ cur[p].msg = "replace_failed"
    /\ cur[p].failedAt \in {"dest_unlink", "promote"}

\* C2 as stated: when the destination unlink or the temp->destination rename
\* failed, at the failure report the original is back at its path with its content
\* and the destination path is absent (read with a rollback rename that works).
C2_RestoredAsStated ==
    \A p \in Procs :
        FailedMidReplace(p) /\ ~cur[p].rbFailed =>
            /\ OrigAtSrc(p)
            /\ (Dest(cur[p]) # Src(cur[p]) => ~DestPresent(p))

\* C2 amended: at that failure report the original content is back at its path and
\* the backup is gone, unless the rollback rename failed too, and then the original
\* content is at the backup path and the original path is absent.  The destination
\* never holds the encoded output: after a failed rename the destination path
\* (when it is not the original path) is absent, after a failed destination unlink
\* it still holds the file that was there.
C2_RestoredUnlessRollbackFails ==
    \A p \in Procs :
        FailedMidReplace(p) =>
            /\ ~cur[p].rbFailed => OrigAtSrc(p) /\ ~BakPresent(p)
            /\ cur[p].rbFailed => OrigAtBak(p) /\ ~Exists(fs, Src(cur[p]))
            /\ ~EncAtDest(p)
            /\ (Dest(cur[p]) # Src(cur[p]) /\ cur[p].failedAt = "promote") => ~DestPresent(p)
            /\ cur[p].failedAt = "dest_unlink" =>
                   /\ Dest(cur[p]) # Src(cur[p])
                   /\ ContentAt(fs, Dest(cur[p])) = cur[p].dest0

\* a failed promotion that was rolled back
C2_RolledBack ==
    \E p \in Procs :
        /\ FailedMidReplace(p)
        /\ cur[p].failedAt = "promote"
        /\ "bak_to_src" \in cur[p].ops
        /\ OrigAtSrc(p)

Succeeded(p) == Returned(p) /\ cur[p].msg \in {"replaced", "wrote"}

OutPath(p) == IF args[p].no_replace THEN final_out(cur[p].path) ELSE Dest(cur[p])

\* C3 as stated: after a successful encode without filesystem failure the
\* original's path no longer exists unless no-replace was asked, the destination
\* holds the encoded content and no backup file remains (read, in no-replace mode,
\* as: none was made).
C3_EndStateAsStated ==
    \A p \in Procs :
        Succeeded(p) =>
            /\ ~args[p].no_replace => ~Exists(fs, Src(cur[p]))
            /\ ContentAt(fs, OutPath(p)) = cur[p].enc
            /\ IF args[p].no_replace THEN ContentAt(fs, Bak(cur[p])) = cur[p].bak0
                                     ELSE ~BakPresent(p)

\* C3 amended: the destination holds the encoded content; in replace mode the
\* original content is no longer at the original's path (the path is gone when
\* the extension changes; for .mkv/.webm the destination is the original path, which
\* exists and holds the encoded content) and no backup remains; in no-replace mode
\* the backup path is left as it was.
C3_EndState ==
    \A p \in Procs :
        Succeeded(p) =>
            /\ ContentAt(fs, OutPath(p)) = cur[p].enc
            /\ cur[p].enc = Encoded(cur[p].src0)
            /\ ~args[p].no_replace =>
                   /\ ~OrigAtSrc(p)
                   /\ ~BakPresent(p)
                   /\ (Lower(Suffix(cur[p].path)) \notin {"mkv", "webm"}
                          => ~Exists(fs, Src(cur[p])))
                   /\ (Lower(Suffix(cur[p].path)) \in {"mkv", "webm"}
                          => ContentAt(fs, Src(cur[p])) = cur[p].enc)
            /\ args[p].no_replace => ContentAt(fs, Bak(cur[p])) = cur[p].bak0

\* an in-place replacement of an .mkv file, the stale backup and the backup removed
C3_ReplacedSameExtension ==
    \E p \in Procs :
        /\ Succeeded(p) /\ cur[p].msg = "replaced"
        /\ Suffix(cur[p].path) = "mkv"
        /\ cur[p].bak0 # NoFile
        /\ "src_to_bak" \in cur[p].ops

\* C4: in no-replace mode the file at the original path is never deleted, renamed
\* or overwritten: at every step of process_file and after it, the original path
\* holds the original content.
C4_NoReplaceKeepsOriginal ==
    \A p \in Procs :
        args[p].no_replace /\ Probed(p) => OrigAtSrc(p)


InPlace(p) == ~args[p].no_replace /\ ~args[p].dry_run

\* C5: with two instances on the same source path, in every interleaving, no two
\* temp files coincide and at every point a complete copy of the file exists at
\* the original, the backup or the destination path.
C5_ConcurrentCopyKept ==
    (\A p \in Procs : InPlace(p)) =>
        /\ \A p, q \in Procs :
               p # q /\ cur[p].tmp # <<>> /\ cur[q].tmp # <<>> => cur[p].tmp # cur[q].tmp
        /\ \A p \in Procs :
               Probed(p) /\ cur[p].path \in SrcPaths =>
                   \E q \in {Src(cur[p]), Bak(cur[p]), Dest(cur[p])} :
                       /\ Exists(fs, q)
                       /\ fs[q].origin = cur[p].src0.origin

EncodeFailed(p) == cur[p].rc \in {"notfound", "error", "nonzero"}

\* C6: when the encoder cannot be run or exits non-zero, process_file reports
\* failure, the temp file is gone unless its deletion failed, and the original is
\* untouched: nothing was renamed or unlinked at the original, backup or
\* destination path.
C6_EncodeFailureLeavesOriginal ==
    \A p \in Procs :
        EncodeFailed(p) =>
            /\ cur[p].phase \in {"encode_failed", "returned"}
            /\ cur[p].ops \subseteq {"mkdir", "tmp_unlink"}
            /\ OrigAtSrc(p)
            /\ ContentAt(fs, Bak(cur[p])) = cur[p].bak0
            /\ ContentAt(fs, Dest(cur[p])) = cur[p].dest0
            /\ Returned(p) =>
                   /\ ~cur[p].ok
                   /\ ~results[p][Len(results[p])].ok
                   /\ results[p][Len(results[p])].path = cur[p].path
                   /\ Exists(fs, cur[p].tmp) => cur[p].cleanupFailed

\* the encoder failed after writing part of the temp file, which was then removed
C6_PartialOutputRemoved ==
    \E p \in Procs :
        /\ Returned(p) /\ cur[p].rc = "nonzero"
        /\ "tmp_unlink" \in cur[p].ops
        /\ ~Exists(fs, cur[p].tmp)

\* C7: whatever fails on a file, the batch goes on: walk_and_process is never left
\* by an exception and holds one result per file it has processed.
C7_BatchContinues ==
    \A p \in Procs :
        /\ pc[p] # "crashed"
        /\ pc[p] \in {"walk", "done"} => Len(results[p]) = obs[p].calls

CompliantStreams(st) ==
    /\ \E i \in 1..Len(st) : st[i].codec_type = "video"
    /\ \A i \in 1..Len(st) :
           /\ st[i].codec_type = "video" => st[i].codec_name = "av1"
           /\ st[i].codec_type = "audio" => st[i].codec_name \in {None, "", "opus"}

\* C8: a file whose streams are compliant is, without force, skipped with an OK
\* result: the encoder and its help query are not run, no temp file or directory
\* is made and the original is not renamed or deleted.
C8_CompliantSkipped ==
    \A p \in Procs :
        Probed(p) /\ CompliantStreams(cur[p].src0.streams) /\ ~args[p].force =>
            /\ Returned(p)
            /\ cur[p].ok /\ cur[p].msg = "skip"
            /\ results[p][Len(results[p])] = [path |-> cur[p].path, ok |-> TRUE, msg |-> "skip"]
            /\ cur[p].ops = {} /\ cur[p].tmp = <<>>
            /\ ~cur[p].ran /\ ~cur[p].help
            /\ OrigAtSrc(p)

\* the second run skips the file the first run has replaced
C8_SkippedOnRerun ==
    \E p \in Procs :
        /\ runs[p] = 2
        /\ Returned(p) /\ cur[p].msg = "skip"
        /\ cur[p].src0.gen = 1
        /\ ~args[p].force /\ ~args[p].no_replace

\* C9: over any sequence of capability queries of one process, with any encoder
\* paths, the help command runs at most once, every call returns what the first
\* returned, and a first invocation that fails yields the empty set, memoized.
C9_QueriedOnce ==
    \A p \in Procs :
        /\ obs[p].helpCalls <= 1
        /\ obs[p].queries >= 1 =>
               /\ obs[p].helpCalls = 1
               /\ obs[p].last = obs[p].first
               /\ nvenc[p] = obs[p].first
               /\ obs[p].first = OptsOf(helpText[obs[p].bins[1]])
        /\ obs[p].firstRaised => obs[p].first = {} /\ obs[p].last = {}

\* a failed first query followed by a query of another binary that would answer
C9_FailedThenOtherBinary ==
    \E p \in Procs :
        /\ obs[p].queries >= 3
        /\ obs[p].firstRaised
        /\ obs[p].bins[2] # obs[p].bins[1]
        /\ OptsOf(helpText[obs[p].bins[2]]) # {}

\* C10: already_compliant is true exactly when the description has video, all
\* video is AV1 and every non-empty audio codec is opus; so it is false without
\* video, and false after one audio codec of a compliant description is changed
\* to another non-empty codec.
C10_CompliantIff ==
    /\ verdict.has =>
           verdict.value =
               (/\ desc.has_video
                /\ desc.all_video_av1
                /\ \A i \in 1..Len(desc.audio_codecs) :
                       desc.audio_codecs[i] \in {"", "opus"})
    /\ verdict.has /\ ~desc.has_video => ~verdict.value
    /\ verdict.has /\ verdict.changed /\ verdict.prev => ~verdict.value

\* a compliant description with two audio streams, one of them changed
C10_ChangedAudio ==
    /\ verdict.has /\ verdict.changed /\ verdict.prev /\ ~verdict.value
    /\ Len(desc.audio_codecs) = 2
    /\ \E i \in 1..2 : desc.audio_codecs[i] = "opus"

Positions(c, x) == {k \in 1..Len(c) : c[k] = x}

\* the option text for the audio stream at per-kind ordinal i, written out
Targeted(name, i) == name \o ":a:" \o Digits[i + 1]

RawChannels(a) == IF a.channels = <<>> THEN 0 ELSE a.channels[1]
RawLabel(a) == IF a.channel_layout = <<>> THEN "" ELSE a.channel_layout[1]

\* the first matching row of the table for one stream, labels read without case
TableRow(a) ==
    LET ch == RawChannels(a)
        label == RawLabel(a)
    IN IF ch <= 2 THEN "family0"
       ELSE IF ch = 6 /\ label \in {"5.1(side)", "5.1(SIDE)"} THEN "family1_remap"
       ELSE IF ch = 6 /\ label \in {"5.1", "5.1(back)"} THEN "family1"
       ELSE IF ch = 8 /\ label \in {"7.1", "7.1(wide)", "7.1(wide-side)", "7.1(rear)"}
            THEN "family1"
       ELSE IF ch = 4 /\ label \in {"quad", "4.0"} THEN "family1"
       ELSE IF ch \in {3, 4, 5, 7} THEN "family1_warn"
       ELSE "downmix"

WarningsOf(i) == {built.warns[k].kind : k \in {j \in 1..Len(built.warns) : built.warns[j].idx = i}}

\* C11: for every list of audio streams, the built command holds for the stream at
\* ordinal i exactly one -mapping_family argument on a:i, with the value of the
\* first matching table row of that stream alone; the channelmap filter on a:i
\* exactly for 6 channels with the side label; the downmix `-ac:a:i 2` exactly
\* for the last row; a warning exactly for the last two rows; nothing else is
\* added, and a command is built for every input.
C11_PerStreamMapping ==
    built.has =>
        LET cmd == built.cmd
            n == Len(ainfo)
        IN /\ Len(cmd) > Len(CmdHead)
           /\ cmd[Len(cmd)] = "dst"
           /\ \A k \in 1..Len(CmdHead) : cmd[k] = CmdHead[k]
           /\ {cmd[k] : k \in (Len(CmdHead) + 1)..(Len(cmd) - 1)}
                  \subseteq {"0", "1", "2", ChannelMap}
                             \cup {Targeted(o, i) : o \in {"-mapping_family", "-filter", "-ac"},
                                                    i \in 0..(n - 1)}
           /\ \A i \in 0..(n - 1) :
                  LET row == TableRow(ainfo[i + 1])
                      fam == Positions(cmd, Targeted("-mapping_family", i))
                      fil == Positions(cmd, Targeted("-filter", i))
                      ac == Positions(cmd, Targeted("-ac", i))
                  IN /\ Cardinality(fam) = 1
                     /\ \A k \in fam :
                            cmd[k + 1] = IF row \in {"family0", "downmix"} THEN "0" ELSE "1"
                     /\ IF row = "family1_remap"
                        THEN Cardinality(fil) = 1 /\ \A k \in fil : cmd[k + 1] = ChannelMap
                        ELSE fil = {}
                     /\ IF row = "downmix"
                        THEN Cardinality(ac) = 1 /\ \A k \in ac : cmd[k + 1] = "2"
                        ELSE ac = {}
                     /\ WarningsOf(i) = (CASE row = "family1_warn" -> {"not_standard"}
                                           [] row = "downmix" -> {"downmix"}
                                           [] OTHER -> {})

\* a stereo stream followed by a 5.1(side) stream: family 0 on a:0, family 1 and
\* the remap filter on a:1
C11_StereoThenSide ==
    /\ built.has
    /\ ainfo = <<AudioStream(<<2>>, <<"stereo">>), AudioStream(<<6>>, <<"5.1(side)">>)>>
    /\ Positions(built.cmd, "-filter:a:1") # {}
    /\ Positions(built.cmd, "-mapping_family:a:0") # {}

\* C12: in dry-run mode process_file only reports the planned command: for every
\* file and every temp-dir setting the encoder is never run and the filesystem is
\* left as it was: no temp file and no directory is created, and the original,
\* the backup and the destination are not renamed or deleted.
C12_DryRunChangesNothing ==
    \A p \in Procs :
        args[p].dry_run =>
            /\ ~cur[p].ran
            /\ cur[p].ops = {}
            /\ ~tdExists
            /\ Probed(p) =>
                   /\ OrigAtSrc(p)
                   /\ ContentAt(fs, Bak(cur[p])) = cur[p].bak0
                   /\ ContentAt(fs, Dest(cur[p])) = cur[p].dest0
                   /\ (cur[p].tmp # <<>> => ~Exists(fs, cur[p].tmp))

====
